---- MODULE Spec2Model ----
(***************************************************************************)
(* Sampling algorithms of the AdvMS_2023 exercise notebooks: transition    *)
(* path sampling (fixed and flexible length), the trajectory generators    *)
(* the replica-exchange loop, the free-energy-perturbation loop with its   *)
(* running average, and the state indicators and the Boltzmann inversion   *)
(* of the rare-events notebook.                                            *)
(*                                                                         *)
(* Configurations are points of the plane with integer coordinates in      *)
(* units of 1/Scale, so that the initial path np.linspace(-1, 1,           *)
(* path_length) lies on the grid.  The Gaussian noise of the integrator    *)
(* has full support: one integrator step may lead to any configuration,    *)
(* and the model draws it from Configs.  Uniform random numbers of [0,1)   *)
(* are drawn from the grid 0/UDen .. (UDen-1)/UDen.                        *)
(***************************************************************************)
EXTENDS Integers, Sequences, FiniteSets, TLC

\* ------------------------------------------------------------------ bounds
\* number of TPS trials of the largest run explored
MaxTrials == 3
\* path_length of the model (500 in the notebook)
PathLength == 2
\* denominator of the grid of uniform draws
UDen == 4
\* largest step budget and output stride of a generator call
MaxSteps == 4
MaxStride == 3
\* largest number of replicas and of steps of a replica-exchange run
MaxReplicas == 2
MaxRemdSteps == 3
\* largest step count of a free-energy-perturbation run, largest number of
\* lambda values of the staged variant and largest Zwanzig factor recorded
MaxFepSteps == 3
MaxSimulations == 3
MaxFactor == 2
\* number of histogram bins (100 in the notebook), largest binary logarithm
\* of a bin count, and half the width of the grid the indicators are
\* evaluated on
NBins == 3
MaxLog == 2
GridHalf == 1
\* largest step count of an MD run that records a trajectory
MaxMdSteps == 4
\* largest number of fleeting trajectories; a coordinate of the fleeting
\* walk is a multiple of 1 / FleetingScale of absolute value at most
\* MaxCoordinate / FleetingScale
MaxFleetingTrajs == 2
FleetingScale == 2
MaxCoordinate == 3
\* the parameter cell of the fleeting trajectories
fleeting_total_steps == 2
fleeting_equilibration_steps == 0
fleeting_output_frequency == 1

\* ------------------------------------------------------- program constants
configuration_output_frequency == 1

VARIABLES
    \* --- transition path sampling
    mode,                      \* "fixed" | "flexible": which TPS cell runs
    total_trials,
    equilibration_trials,
    path_output_frequency,
    trial,                     \* the next value of the loop variable
    current_path,
    accepted_trials,
    accepted_shooting_points,
    trajectory_ensemble,
    forward_len,               \* len(forward_trj) of the last trial
    forward_end,               \* forward_trj[-1] of the last trial
    reverse_len,               \* len(reverse_trj) of the last trial
    reverse_end,               \* reverse_trj[-1] of the last trial
    is_reactive_path,
    length_ratio,              \* <<N_old, N_new>>, the ratio N_old / N_new
    uniform_draw,              \* numerator of the last uniform draw
    \* --- one call of a trajectory generator
    gen_kind,                  \* "path": generate_path, "to_state": generate_path_to_state
    gen_start,                 \* the shooting_point argument
    gen_steps,                 \* the path_length argument
    gen_stride,                \* the configuration_output_frequency argument
    gen_pc,                    \* "call" | "loop" | "returned"
    gen,                       \* previous_x, trajectory, step (and stopped)
    \* --- replica exchange
    N_replicas,
    remd_total_steps,          \* total_steps of the REMD parameter cell
    exchange_frequency,
    betas,                     \* beta_range, times 10
    remd_step,                 \* the loop variable step
    replica_x,                 \* the configuration of each replica
    replica_stamp,             \* the step that produced each replica's configuration
    propagated,                \* the replicas propagated in the current step
    exchange_matrix,
    exchange_i,                \* the pair of the last attempt,
    exchange_j,
    exchange_accepted,         \* and whether it was accepted
    \* --- free-energy perturbation, direct and staged
    fep_variant,               \* "direct" | "staged": the cells that are run
    l_simulations,             \* number of lambda values (0: not yet assigned)
    il,                        \* the loop variable of the loop over the stages
    zwanzig_factor_avg_simulations,
    n_steps_per_simulation,    \* of the staged cell, or left behind by the
                               \* thermodynamic-integration cell
    fep_total_steps,           \* total_steps of the FEP parameter cell
    fep_equilibration_steps,
    fep_output_frequency,
    fep_beta,
    fep_timestep,
    fep_diffusion_coefficient,
    fep_pc,                    \* "params" | "checked" | "loop" | "next_stage" | "done" |
                               \* "assert_failed" | "alloc_failed" | "step_failed"
    fep_step,                  \* the loop variable step
    fep_previous_x,
    fep_same_shape,            \* current_force.shape == previous_x.shape at the last call
    fep_total_frames,
    zwanzig_factor_avg,        \* index 0..total_frames, each entry <<num, den>>
    zwanzig_factors,           \* the Zwanzig factors recorded so far (in this stage)
    \* --- rare events: Boltzmann inversion and state indicators
    rare_pc,                   \* "histogram" | "inverted" | "shifted" | "plotted" | "done"
    hist,                      \* the count of each bin
    free_energy,               \* per bin [fin, val]: a finite value or +inf
    free_energy_max,           \* np.max(free_energy) of the plotting cell
    max_over_bins,             \* the bins that np.max ran over
    grid_point,                \* number of grid points evaluated so far
    in_state_A,
    in_state_B,
    \* --- rare events: the MD loop that records a trajectory
    md_total_steps,
    md_equilibration_steps,
    md_output_frequency,
    md_pc,                     \* "params" | "checked" | "loop" | "done" |
                               \* "assert_failed" | "index_error"
    md_step,                   \* the loop variable step
    md_previous_x,
    md_total_frames,
    trajectory,                \* index 0..total_frames-1
    rows_written,              \* the indices written so far, in order
    \* --- rare events: fleeting trajectories started by a Monte Carlo walk
    n_fleeting_trajs,
    fleeting_pc,               \* "head" | "md" | "done"
    traj,                      \* the loop variable of the outer loop
    fleeting_step,             \* the loop variable of the inner loop
    fleeting_previous_x,
    initial_x,                 \* the state of the Monte Carlo walk
    fleeting_trajectory,       \* the rows of fleeting_trajectory[traj]
    acc,
    proposed_x,
    e_old,
    e_new,
    mc_draw_below              \* the last uniform draw was below exp(-beta*(e_new-e_old))

tpsParams == <<mode, total_trials, equilibration_trials, path_output_frequency>>
tpsLocals == <<forward_len, forward_end, reverse_len, reverse_end,
               is_reactive_path, length_ratio, uniform_draw>>
tpsVars == <<tpsParams, trial, current_path, accepted_trials,
             accepted_shooting_points, trajectory_ensemble, tpsLocals>>

genVars == <<gen_kind, gen_start, gen_steps, gen_stride, gen_pc, gen>>

remdParams == <<N_replicas, remd_total_steps, exchange_frequency>>
remdLocals == <<exchange_i, exchange_j, exchange_accepted>>
remdVars == <<remdParams, betas, remd_step, replica_x, replica_stamp, propagated,
              exchange_matrix, remdLocals>>

fepParams == <<fep_variant, l_simulations, n_steps_per_simulation, fep_total_steps, fep_equilibration_steps,
               fep_output_frequency, fep_beta, fep_timestep, fep_diffusion_coefficient>>
fepVars == <<fepParams, fep_pc, fep_step, fep_previous_x, fep_same_shape, fep_total_frames,
             zwanzig_factor_avg, zwanzig_factors, il, zwanzig_factor_avg_simulations>>

rareVars == <<rare_pc, hist, free_energy, free_energy_max, max_over_bins,
              grid_point, in_state_A, in_state_B>>

mdParams == <<md_total_steps, md_equilibration_steps, md_output_frequency>>
mdVars == <<mdParams, md_pc, md_step, md_previous_x, md_total_frames, trajectory,
            rows_written>>

fleetingLocals == <<proposed_x, e_old, e_new, mc_draw_below>>
fleetingVars == <<n_fleeting_trajs, fleeting_pc, traj, fleeting_step, fleeting_previous_x,
                  initial_x, fleeting_trajectory, acc, fleetingLocals>>

vars == <<tpsVars, genVars, remdVars, fepVars, rareVars, mdVars, fleetingVars>>

\* what the cells of one part of the model leave alone
outsideTPS == <<genVars, remdVars, fepVars, rareVars, mdVars, fleetingVars>>
outsideGen == <<tpsVars, remdVars, fepVars, rareVars, mdVars, fleetingVars>>
outsideREMD == <<tpsVars, genVars, fepVars, rareVars, mdVars, fleetingVars>>
outsideFEP == <<tpsVars, genVars, remdVars, rareVars, mdVars, fleetingVars>>
outsideRare == <<tpsVars, genVars, remdVars, fepVars, mdVars, fleetingVars>>
outsideMD == <<tpsVars, genVars, remdVars, fepVars, rareVars, fleetingVars>>
outsideFleeting == <<tpsVars, genVars, remdVars, fepVars, rareVars, mdVars>>

\* ---------------------------------------------------------- configurations
path_length == PathLength
Scale == path_length - 1

\* custom_cv: the diagonal x + y
custom_cv(x) == x[1] + x[2]

\* mutants: the comparison with the bound not strict, resp. turned around
custom_bounded_state_below_inclusive(x, hi) == custom_cv(x) <= hi
custom_bounded_state_above_flipped(x, lo) == custom_cv(x) < lo

\* custom_bounded_state with bounds (-inf, hi) resp. (lo, +inf): strict
custom_bounded_state_below(x, hi) == custom_cv(x) < hi
custom_bounded_state_above(x, lo) == custom_cv(x) > lo

\* state A: CV from -inf to -2, state B: CV from 2 to +inf
state_A_indicator(x) == custom_bounded_state_below(x, -2 * Scale)
state_B_indicator(x) == custom_bounded_state_above(x, 2 * Scale)

\* mutant: state B left out of the list of state functions
InStateAOnly(x) == state_A_indicator(x)

InAnyState(x) == state_A_indicator(x) \/ state_B_indicator(x)

ConfigA == <<-2 * Scale, -Scale>>
ConfigB == <<2 * Scale, Scale>>
ConfigMid == <<0, 0>>
\* the configurations an integrator step may produce: one inside A, one
\* between the states, one inside B
Configs == {ConfigA, ConfigMid, ConfigB}

\* np.linspace(-1, 1, n)[i-1] in units of 1/Scale, for n = path_length
Linspace(i) == -Scale + 2 * (i - 1)
InitialPath == [i \in 1..path_length |-> <<Linspace(i), Linspace(i)>>]

\* -------------------------------------------------------------- integrator
\* update_positions: x + D*beta*force*dt + sqrt(2*D*dt)*g with g standard
\* normal.  The noise reaches every configuration, so the set of possible
\* results of one step does not depend on current_x.
update_positions(current_x) == Configs

\* ------------------------------------------------------ trajectory generators
\* mutant: a step recorded when the count of steps taken is a multiple of stride
RecordedAfter(step, stride) == (step + 1) % stride = 0

\* A step of the integration loop is recorded when step % stride = 0, as in the
\* recording loops of the notebooks.
Recorded(step, stride) == step % stride = 0

\* generate_path: the generator before its first step (the trajectory holds
\* the shooting point) ...
GenPathStart(shooting_pt) ==
    [previous_x |-> shooting_pt, trajectory |-> <<shooting_pt>>, step |-> 0]

\* ... and one pass of its loop, next_x being the integrator's result
GenPathStep(g, stride, next_x) ==
    [previous_x |-> next_x,
     trajectory |-> IF Recorded(g.step, stride)
                    THEN Append(g.trajectory, next_x)
                    ELSE g.trajectory,
     step |-> g.step + 1]

\* the loop condition of generate_path
GenPathRunning(g, n_steps) == g.step < n_steps

RECURSIVE GenPathRun(_, _, _, _)
GenPathRun(g, n_steps, stride, draws) ==
    IF ~GenPathRunning(g, n_steps)
    THEN g
    ELSE GenPathRun(GenPathStep(g, stride, draws[g.step + 1]), n_steps, stride, draws)

\* generate_path(shooting_point, path_length, configuration_output_frequency, ...)
\* draws[k] is the result of the k-th call of update_positions
generate_path(shooting_pt, n_steps, stride, draws) ==
    GenPathRun(GenPathStart(shooting_pt), n_steps, stride, draws).trajectory

\* generate_path_to_state: as generate_path, but the state functions are
\* evaluated on the start point and on every recorded configuration, and the
\* generator stops as soon as one of them is true
GenToStateStart(shooting_pt) ==
    [previous_x |-> shooting_pt, trajectory |-> <<shooting_pt>>, step |-> 0,
     stopped |-> InAnyState(shooting_pt)]

GenToStateStep(g, stride, next_x) ==
    [previous_x |-> next_x,
     trajectory |-> IF Recorded(g.step, stride)
                    THEN Append(g.trajectory, next_x)
                    ELSE g.trajectory,
     step |-> g.step + 1,
     stopped |-> Recorded(g.step, stride) /\ InAnyState(next_x)]

\* the loop condition of generate_path_to_state
GenToStateRunning(g, n_steps) == g.step < n_steps /\ ~g.stopped

RECURSIVE GenToStateRun(_, _, _, _)
GenToStateRun(g, n_steps, stride, draws) ==
    IF ~GenToStateRunning(g, n_steps)
    THEN g
    ELSE GenToStateRun(GenToStateStep(g, stride, draws[g.step + 1]), n_steps, stride, draws)

generate_path_to_state(shooting_pt, n_steps, stride, draws) ==
    GenToStateRun(GenToStateStart(shooting_pt), n_steps, stride, draws).trajectory

\* ------------------------------------------------- transition path sampling
Last(seq) == seq[Len(seq)]
Reverse(seq) == [i \in 1..Len(seq) |-> seq[Len(seq) + 1 - i]]

\* the number of integrator steps of the forward and the backward trajectory
ForwardSteps == path_length \div 2 + 1
ReverseSteps == path_length \div 2

\* mutant: end points in any stable states, the same one too
IsReactivePathAnyStates(fw_in_A, fw_in_B, rv_in_A, rv_in_B) ==
    (fw_in_A \/ fw_in_B) /\ (rv_in_A \/ rv_in_B)

\* is_reactive_path: the end points lie in opposing stable states
IsReactivePath(fw_in_A, fw_in_B, rv_in_A, rv_in_B) ==
    (fw_in_B /\ rv_in_A) \/ (fw_in_A /\ rv_in_B)

ReactiveProposal(fw_trj, rv_trj) ==
    IsReactivePath(state_A_indicator(Last(fw_trj)), state_B_indicator(Last(fw_trj)),
                   state_A_indicator(Last(rv_trj)), state_B_indicator(Last(rv_trj)))

\* length_ratio = N_old / N_new, kept as the pair <<N_old, N_new>>
LengthRatio(old_path, fw_trj, rv_trj) ==
    <<Len(old_path) - 1, Len(fw_trj) + Len(rv_trj) - 1>>

\* u < min(1, N_old / N_new) for the draw u = draw / UDen
AcceptLength(ratio, draw) ==
    IF ratio[1] >= ratio[2]
    THEN draw < UDen
    ELSE draw * ratio[2] < UDen * ratio[1]

\* mutant: the forward trajectory stacked with its first point
NewPathKeepingFirstPoint(rv_trj, fw_trj) == Reverse(rv_trj) \o fw_trj

\* np.vstack([reverse_trj[::-1], forward_trj[1:]])
NewPath(rv_trj, fw_trj) == Reverse(rv_trj) \o Tail(fw_trj)

\* mutant: current_path assigned outside the accept branch
PathAfterTrialAlways(accept, old_path, rv_trj, fw_trj) == NewPath(rv_trj, fw_trj)

\* the accept branch: current_path, accepted_shooting_points, accepted_trials
PathAfterTrial(accept, old_path, rv_trj, fw_trj) ==
    IF accept THEN NewPath(rv_trj, fw_trj) ELSE old_path

\* mutant: the shooting point recorded outside the accept branch
ShootingPointsAfterTrialAlways(accept, points, shooting_pt) ==
    Append(points, shooting_pt)

ShootingPointsAfterTrial(accept, points, shooting_pt) ==
    IF accept THEN Append(points, shooting_pt) ELSE points

AcceptedTrialsAfterTrial(accept, n) ==
    IF accept THEN n + 1 ELSE n

\* "Add path to ensemble"
IsSampledTrial(t, equilibration, frequency) ==
    t > equilibration /\ t % frequency = 0

\* mutant: the equilibration threshold compared with >= instead of >
EnsembleAfterTrialInclusive(ensemble, t, equilibration, frequency, path) ==
    IF t >= equilibration /\ t % frequency = 0
    THEN Append(ensemble, path)
    ELSE ensemble

EnsembleAfterTrial(ensemble, t, equilibration, frequency, path) ==
    IF IsSampledTrial(t, equilibration, frequency)
    THEN Append(ensemble, path)
    ELSE ensemble

\* mutant: the move accepted without looking at is_reactive_path
AcceptFixedAlways(reactive) == TRUE

\* fixed length: "If it is reactive, accept move"
AcceptFixed(reactive) == reactive

\* mutant: the fixed-length criterion reused, the length ratio forgotten
AcceptFlexibleNoRatio(reactive, ratio, draw) == reactive

\* flexible length: "If it is reactive, check length ratio", then
\* "Accept or reject"
AcceptFlexible(reactive, ratio, draw) == reactive /\ AcceptLength(ratio, draw)

\* the part of a loop pass the two TPS cells share
FinishTrial(accept, shooting_pt, fw_trj, rv_trj, reactive) ==
    /\ forward_len' = Len(fw_trj)
    /\ forward_end' = Last(fw_trj)
    /\ reverse_len' = Len(rv_trj)
    /\ reverse_end' = Last(rv_trj)
    /\ is_reactive_path' = reactive
    /\ current_path' = PathAfterTrial(accept, current_path, rv_trj, fw_trj)
    /\ accepted_shooting_points' =
           ShootingPointsAfterTrial(accept, accepted_shooting_points, shooting_pt)
    /\ accepted_trials' = AcceptedTrialsAfterTrial(accept, accepted_trials)
    /\ trajectory_ensemble' =
           EnsembleAfterTrial(trajectory_ensemble, trial, equilibration_trials,
                              path_output_frequency, current_path')
    /\ trial' = trial + 1
    /\ UNCHANGED <<tpsParams, outsideTPS>>

\* the trajectories the generators can return from a shooting point, over all
\* results of the integrator
GeneratedPaths(shooting_pt, n_steps, stride) ==
    { generate_path(shooting_pt, n_steps, stride, draws) :
          draws \in [1..n_steps -> UNION {update_positions(x) : x \in Configs}] }

GeneratedPathsToState(shooting_pt, n_steps, stride) ==
    { generate_path_to_state(shooting_pt, n_steps, stride, draws) :
          draws \in [1..n_steps -> UNION {update_positions(x) : x \in Configs}] }

\* one pass of the fixed-length loop
TrialFixed ==
    /\ mode = "fixed"
    /\ trial < total_trials
    /\ \E idx \in 1..Len(current_path) :
       LET shooting_pt == current_path[idx] IN
       \E fw_trj \in GeneratedPaths(shooting_pt, ForwardSteps,
                                    configuration_output_frequency) :
       \E rv_trj \in GeneratedPaths(shooting_pt, ReverseSteps,
                                    configuration_output_frequency) :
          LET reactive == ReactiveProposal(fw_trj, rv_trj)
          IN /\ FinishTrial(AcceptFixed(reactive), shooting_pt, fw_trj, rv_trj, reactive)
             /\ UNCHANGED <<length_ratio, uniform_draw>>

\* one pass of the flexible-length loop; the uniform number is drawn in the
\* reactive branch only
TrialFlexible ==
    /\ mode = "flexible"
    /\ trial < total_trials
    /\ \E idx \in 1..Len(current_path) :
       LET shooting_pt == current_path[idx] IN
       \E fw_trj \in GeneratedPathsToState(shooting_pt, ForwardSteps,
                                           configuration_output_frequency) :
       \E rv_trj \in GeneratedPathsToState(shooting_pt, ReverseSteps,
                                           configuration_output_frequency) :
          LET reactive == ReactiveProposal(fw_trj, rv_trj)
              ratio == LengthRatio(current_path, fw_trj, rv_trj)
          IN IF reactive
             THEN \E draw \in 0..(UDen - 1) :
                     /\ length_ratio' = ratio
                     /\ uniform_draw' = draw
                     /\ FinishTrial(AcceptFlexible(reactive, ratio, draw),
                                    shooting_pt, fw_trj, rv_trj, reactive)
             ELSE /\ UNCHANGED <<length_ratio, uniform_draw>>
                  /\ FinishTrial(FALSE, shooting_pt, fw_trj, rv_trj, reactive)

\* the cell's assignments before the loop, under the asserts of the parameter cell
InitTPS ==
    /\ mode \in {"fixed", "flexible"}
    /\ total_trials \in 1..MaxTrials
    /\ equilibration_trials \in 0..MaxTrials
    /\ path_output_frequency \in 1..MaxTrials
    /\ equilibration_trials < total_trials
    /\ path_output_frequency < total_trials
    /\ path_output_frequency > 0
    /\ trial = 0
    /\ current_path = InitialPath
    /\ accepted_trials = 0
    /\ accepted_shooting_points = <<>>
    /\ trajectory_ensemble = <<>>
    /\ forward_len = 0
    /\ forward_end = InitialPath[1]
    /\ reverse_len = 0
    /\ reverse_end = InitialPath[1]
    /\ is_reactive_path = FALSE
    /\ length_ratio = <<1, 1>>
    /\ uniform_draw = 0

NextTPS == TrialFixed \/ TrialFlexible

\* ---------------------------------------------- a generator call, step by step
StartConfigs == Configs \cup {InitialPath[i] : i \in 1..path_length}

InitGen ==
    /\ gen_kind \in {"path", "to_state"}
    /\ gen_start \in StartConfigs
    /\ gen_steps \in 1..MaxSteps
    /\ gen_stride \in 1..MaxStride
    /\ gen_pc = "call"
    /\ gen = GenPathStart(gen_start)

genArgs == <<gen_kind, gen_start, gen_steps, gen_stride>>

\* the statements before the loop
GenCall ==
    /\ gen_pc = "call"
    /\ gen' = IF gen_kind = "path"
              THEN GenPathStart(gen_start)
              ELSE GenToStateStart(gen_start)
    /\ gen_pc' = IF gen_kind = "path"
                 THEN (IF GenPathRunning(gen', gen_steps) THEN "loop" ELSE "returned")
                 ELSE (IF GenToStateRunning(gen', gen_steps) THEN "loop" ELSE "returned")
    /\ UNCHANGED <<genArgs, outsideGen>>

\* one pass of the loop of generate_path
GenPathLoop ==
    /\ gen_pc = "loop"
    /\ gen_kind = "path"
    /\ \E next_x \in update_positions(gen.previous_x) :
          gen' = GenPathStep(gen, gen_stride, next_x)
    /\ gen_pc' = IF GenPathRunning(gen', gen_steps) THEN "loop" ELSE "returned"
    /\ UNCHANGED <<genArgs, outsideGen>>

\* one pass of the loop of generate_path_to_state
GenToStateLoop ==
    /\ gen_pc = "loop"
    /\ gen_kind = "to_state"
    /\ \E next_x \in update_positions(gen.previous_x) :
          gen' = GenToStateStep(gen, gen_stride, next_x)
    /\ gen_pc' = IF GenToStateRunning(gen', gen_steps) THEN "loop" ELSE "returned"
    /\ UNCHANGED <<genArgs, outsideGen>>

NextGen == GenCall \/ GenPathLoop \/ GenToStateLoop

\* --------------------------------------------------------- replica exchange
\* beta_range = [0.1, 0.2, 0.4, 0.8, 1], in units of 1/10
beta_range == <<1, 2, 4, 8, 10>>

Replicas == 0..(N_replicas - 1)

\* custom_potential_energy, times Scale^4:
\* 10 * ((x0^2 - 1)^2 + (x0 - x1)^2)
custom_potential_energy(x) ==
    10 * ((x[1] * x[1] - Scale * Scale) * (x[1] * x[1] - Scale * Scale)
          + Scale * Scale * (x[1] - x[2]) * (x[1] - x[2]))

\* Delta U_ij * (beta_i - beta_j), up to a positive factor
MetropolisExponent(xs, bs, i, j) ==
    (custom_potential_energy(xs[i]) - custom_potential_energy(xs[j])) * (bs[i + 1] - bs[j + 1])

\* mutant: the sign of the exponent taken the other way round
MetropolisAcceptSignFlipped(exponent, below) == exponent >= 0 \/ below

\* u < min(1, exp(-exponent)): certain when the exponent is <= 0; otherwise
\* exp(-exponent) lies strictly between 0 and 1 and the draw decides
\* (below: the uniform draw is below exp(-exponent))
MetropolisAccept(exponent, below) == exponent <= 0 \/ below

\* mutant: the exchange starts as soon as one replica has been propagated
PropagationStarted(done, n) == done # {}

\* the loop over the replicas has run to its end
PropagationComplete(done, n) == done = 0..(n - 1)

\* mutant: the attempt made at the end of every exchange interval
IsExchangeStepAtIntervalEnd(step, frequency) == (step + 1) % frequency = 0

\* the steps at which an exchange is attempted: "Skip the exchange code below
\* if step is not divisible by exchange_frequency"
IsExchangeStep(step, frequency) == step % frequency = 0

\* mutant: the temperatures of the pair swapped instead of the configurations
SwapOutcomeLabels(accept, i, j, xs, stamps, bs) ==
    IF accept
    THEN [x |-> xs, stamp |-> stamps,
          beta |-> [bs EXCEPT ![i + 1] = bs[j + 1], ![j + 1] = bs[i + 1]]]
    ELSE [x |-> xs, stamp |-> stamps, beta |-> bs]

\* "If accepted, swap the configurations of the two simulations"
SwapOutcome(accept, i, j, xs, stamps, bs) ==
    IF accept
    THEN [x |-> [xs EXCEPT ![i] = xs[j], ![j] = xs[i]],
          stamp |-> [stamps EXCEPT ![i] = stamps[j], ![j] = stamps[i]],
          beta |-> bs]
    ELSE [x |-> xs, stamp |-> stamps, beta |-> bs]

\* "Draw a random integer i and j both within [0, N_replicas[": the two
\* indices are drawn one after the other from the same range
ExchangePairs(n) == (0..(n - 1)) \X (0..(n - 1))

\* mutant: only the entry of the pair in the order it was drawn counted up
CountAttemptOrdered(matrix, i, j) == [matrix EXCEPT ![i][j] = @ + 1]

\* the counters of the attempted pair, symmetric in the index pair: an
\* attempt on i and j counts up the entries [i][j] and [j][i] (one entry when
\* i = j) by one
CountAttempt(matrix, i, j) ==
    [a \in DOMAIN matrix |->
        [b \in DOMAIN matrix[a] |->
            IF (a = i /\ b = j) \/ (a = j /\ b = i)
            THEN matrix[a][b] + 1
            ELSE matrix[a][b]]]

\* the parameter cell and "Initialize Output Variables"; every replica starts
\* from initial_x = np.zeros(2)
InitREMD ==
    /\ N_replicas \in 1..MaxReplicas
    /\ remd_total_steps \in 1..MaxRemdSteps
    /\ exchange_frequency \in 1..MaxRemdSteps
    /\ exchange_frequency < remd_total_steps
    /\ betas = beta_range
    /\ remd_step = 0
    /\ replica_x = [r \in Replicas |-> ConfigMid]
    /\ replica_stamp = [r \in Replicas |-> -1]
    /\ propagated = {}
    /\ exchange_matrix = [i \in Replicas |-> [j \in Replicas |-> 0]]
    /\ exchange_i = 0
    /\ exchange_j = 0
    /\ exchange_accepted = FALSE

\* the body of "for rep in range(N_replicas)": one integrator step of one
\* replica.  The replicas do not interact while they are propagated; the model
\* lets them take their step in any order, which covers workers running them
\* side by side.
Propagate(rep) ==
    /\ remd_step < remd_total_steps
    /\ rep \notin propagated
    /\ \E next_x \in update_positions(replica_x[rep]) :
          replica_x' = [replica_x EXCEPT ![rep] = next_x]
    /\ replica_stamp' = [replica_stamp EXCEPT ![rep] = remd_step]
    /\ propagated' = propagated \cup {rep}
    /\ UNCHANGED <<remdParams, betas, remd_step, exchange_matrix, remdLocals, outsideREMD>>

PropagateReplica == \E rep \in Replicas : Propagate(rep)

\* "if step % exchange_frequency != 0: continue"
SkipExchange ==
    /\ remd_step < remd_total_steps
    /\ PropagationComplete(propagated, N_replicas)
    /\ ~IsExchangeStep(remd_step, exchange_frequency)
    /\ remd_step' = remd_step + 1
    /\ propagated' = {}
    /\ UNCHANGED <<remdParams, betas, replica_x, replica_stamp, exchange_matrix,
                   remdLocals, outsideREMD>>

\* "Attempt Exchange": i and j are drawn within [0, N_replicas[, the swap is
\* accepted by the Metropolis criterion, the attempt is counted
AttemptExchange ==
    /\ remd_step < remd_total_steps
    /\ PropagationComplete(propagated, N_replicas)
    /\ IsExchangeStep(remd_step, exchange_frequency)
    /\ \E pair \in ExchangePairs(N_replicas), below \in BOOLEAN :
          LET i == pair[1]
              j == pair[2]
              accept == MetropolisAccept(MetropolisExponent(replica_x, betas, i, j), below)
              out == SwapOutcome(accept, i, j, replica_x, replica_stamp, betas)
          IN /\ replica_x' = out.x
             /\ replica_stamp' = out.stamp
             /\ betas' = out.beta
             /\ exchange_matrix' = CountAttempt(exchange_matrix, i, j)
             /\ exchange_i' = i
             /\ exchange_j' = j
             /\ exchange_accepted' = accept
    /\ remd_step' = remd_step + 1
    /\ propagated' = {}
    /\ UNCHANGED <<remdParams, outsideREMD>>

NextREMD == PropagateReplica \/ SkipExchange \/ AttemptExchange

IdleREMD ==
    /\ N_replicas = 0
    /\ remd_total_steps = 0
    /\ exchange_frequency = 1
    /\ betas = beta_range
    /\ remd_step = 0
    /\ replica_x = <<>>
    /\ replica_stamp = <<>>
    /\ propagated = {}
    /\ exchange_matrix = <<>>
    /\ exchange_i = 0
    /\ exchange_j = 0
    /\ exchange_accepted = FALSE

\* ------------------------------------------------ free-energy perturbation
RECURSIVE GCD(_, _)
GCD(a, b) == IF b = 0 THEN a ELSE GCD(b, a % b)

\* the fraction q[1] / q[2] in lowest terms, q[1] >= 0 and q[2] > 0
Lowest(q) == LET g == GCD(q[1], q[2]) IN
             IF g = 0 THEN <<0, 1>> ELSE <<q[1] \div g, q[2] \div g>>

\* mutant: the mean of all frames, frame 0 included
running_average_all_frames(x, step, avg) ==
    Lowest(<<avg[1] * step + x * avg[2], avg[2] * (step + 1)>>)

\* running_average(x, step, avg), the average a fraction <<num, den>>:
\*     if step == 0: avg = step
\*     else:         avg = (avg*(step-1) + x)/step
running_average(x, step, avg) ==
    IF step = 0
    THEN <<step, 1>>
    ELSE Lowest(<<avg[1] * (step - 1) + x * avg[2], avg[2] * step>>)

\* mutant: a timestep of zero let through
update_positions_asserts_nonnegative(dt, diffusion_coeff, beta, same_shape) ==
    dt >= 0 /\ diffusion_coeff > 0 /\ beta > 0 /\ same_shape

\* the four asserts of update_positions
update_positions_asserts(dt, diffusion_coeff, beta, same_shape) ==
    dt > 0 /\ diffusion_coeff > 0 /\ beta > 0 /\ same_shape

\* the asserts of the FEP parameter cell: they name n_steps_per_simulation
FepParameterAsserts ==
    /\ fep_equilibration_steps < n_steps_per_simulation
    /\ fep_output_frequency < n_steps_per_simulation
    /\ fep_output_frequency > 0

\* int(np.ceil((total_steps - equilibration_steps) / output_frequency))
TotalFrames(steps, equilibration, frequency) ==
    (steps - equilibration + frequency - 1) \div frequency

\* "if step >= equilibration_steps and step % output_frequency == 0"
IsOutputStep(step, equilibration, frequency) ==
    step >= equilibration /\ step % frequency = 0

\* index = (step - equilibration_steps) // output_frequency
FrameIndex(step, equilibration, frequency) == (step - equilibration) \div frequency

\* the values the model gives beta, timestep and diffusion_coefficient, and
\* the Zwanzig factors exp(-beta * (U_B(x) - U_A(x))) it records
ParameterValues == {-1, 0, 1}
ZwanzigFactors == 1..MaxFactor

\* the FEP parameter cell before its asserts run
InitFEP ==
    /\ fep_variant \in {"direct", "staged"}
    /\ l_simulations \in (IF fep_variant = "direct" THEN {0} ELSE 1..MaxSimulations)
    /\ il = 0
    /\ zwanzig_factor_avg_simulations = <<>>
    /\ n_steps_per_simulation \in 1..MaxFepSteps
    /\ fep_total_steps \in (IF fep_variant = "direct" THEN 1..MaxFepSteps ELSE {MaxFepSteps})
    /\ fep_equilibration_steps \in 0..MaxFepSteps
    /\ fep_output_frequency \in 0..MaxFepSteps
    /\ fep_beta \in ParameterValues
    /\ fep_timestep \in ParameterValues
    /\ fep_diffusion_coefficient \in ParameterValues
    /\ fep_pc = "params"
    /\ fep_step = 0
    /\ fep_previous_x = ConfigMid
    /\ fep_same_shape = TRUE
    /\ fep_total_frames = 0
    /\ zwanzig_factor_avg = <<>>
    /\ zwanzig_factors = <<>>

\* the three asserts that end the parameter cell
CheckParameters ==
    /\ fep_pc = "params"
    /\ fep_pc' = IF FepParameterAsserts THEN "checked" ELSE "assert_failed"
    /\ UNCHANGED <<fepParams, fep_step, fep_previous_x, fep_same_shape, fep_total_frames,
                   zwanzig_factor_avg, zwanzig_factors, il,
                   zwanzig_factor_avg_simulations, outsideFEP>>

\* np.zeros((total_frames+1)): the running averages before the first frame
ZeroAverages(frames) == [n \in 0..frames |-> <<0, 1>>]

\* the steps of the loop: "for step in range(total_steps)" in the direct
\* cell, "for step in range(n_steps_per_simulation)" in the staged one
LoopSteps == IF fep_variant = "direct" THEN fep_total_steps ELSE n_steps_per_simulation

\* lambdas[:-1] of np.linspace(0, 1, l_simulations): the number of stages
Stages(n) == IF n >= 1 THEN n - 1 ELSE 0

\* the statements before the loop: total_frames is assigned, then np.zeros
\* raises for a negative frame count
StartLoop ==
    /\ fep_variant = "direct"
    /\ fep_pc = "checked"
    /\ LET frames == TotalFrames(fep_total_steps, fep_equilibration_steps,
                                 fep_output_frequency)
       IN IF frames < 0
          THEN /\ fep_pc' = "alloc_failed"
               /\ fep_total_frames' = frames
               /\ UNCHANGED zwanzig_factor_avg
          ELSE /\ fep_pc' = "loop"
               /\ fep_total_frames' = frames
               /\ zwanzig_factor_avg' = ZeroAverages(frames)
    /\ fep_previous_x' = ConfigMid
    /\ UNCHANGED <<fepParams, fep_step, fep_same_shape, zwanzig_factors, il,
                   zwanzig_factor_avg_simulations, outsideFEP>>

\* the head of one pass of "for il, l in enumerate(lambdas[:-1])": the
\* configuration, the frame count and the arrays are set up anew
StartStage ==
    /\ fep_variant = "staged"
    /\ fep_pc \in {"checked", "next_stage"}
    /\ il < Stages(l_simulations)
    /\ LET frames == TotalFrames(n_steps_per_simulation, fep_equilibration_steps,
                                 fep_output_frequency)
       IN IF frames < 0
          THEN /\ fep_pc' = "alloc_failed"
               /\ fep_total_frames' = frames
               /\ UNCHANGED <<zwanzig_factor_avg, fep_step, zwanzig_factors>>
          ELSE /\ fep_pc' = "loop"
               /\ fep_total_frames' = frames
               /\ zwanzig_factor_avg' = ZeroAverages(frames)
               /\ fep_step' = 0
               /\ zwanzig_factors' = <<>>
    /\ fep_previous_x' = ConfigMid
    /\ UNCHANGED <<fepParams, fep_same_shape, il, zwanzig_factor_avg_simulations,
                   outsideFEP>>

\* one pass of "for step in range(total_steps)": the force is evaluated (its
\* shape is the force function's business), update_positions is called, and
\* at an output step the Zwanzig factor enters the running average
FepStep ==
    /\ fep_pc = "loop"
    /\ fep_step < LoopSteps
    /\ \E same_shape \in BOOLEAN :
          /\ fep_same_shape' = same_shape
          /\ IF ~update_positions_asserts(fep_timestep, fep_diffusion_coefficient,
                                          fep_beta, same_shape)
             THEN /\ fep_pc' = "step_failed"
                  /\ UNCHANGED <<fep_step, fep_previous_x, zwanzig_factor_avg,
                                 zwanzig_factors>>
             ELSE /\ fep_pc' = "loop"
                  /\ fep_step' = fep_step + 1
                  /\ \E next_x \in update_positions(fep_previous_x) :
                        fep_previous_x' = next_x
                  /\ IF IsOutputStep(fep_step, fep_equilibration_steps, fep_output_frequency)
                     THEN \E zwanzig_factor \in ZwanzigFactors :
                             LET index == FrameIndex(fep_step, fep_equilibration_steps,
                                                     fep_output_frequency)
                             IN /\ zwanzig_factor_avg' =
                                       [zwanzig_factor_avg EXCEPT ![index + 1] =
                                           running_average(zwanzig_factor, index,
                                                           zwanzig_factor_avg[index])]
                                /\ zwanzig_factors' = Append(zwanzig_factors, zwanzig_factor)
                     ELSE UNCHANGED <<zwanzig_factor_avg, zwanzig_factors>>
    /\ UNCHANGED <<fepParams, fep_total_frames, il, zwanzig_factor_avg_simulations,
                   outsideFEP>>

\* the loop is left and delta_F_fep_direct is computed
FinishRun ==
    /\ fep_variant = "direct"
    /\ fep_pc = "loop"
    /\ fep_step = fep_total_steps
    /\ fep_pc' = "done"
    /\ UNCHANGED <<fepParams, fep_step, fep_previous_x, fep_same_shape, fep_total_frames,
                   zwanzig_factor_avg, zwanzig_factors, il,
                   zwanzig_factor_avg_simulations, outsideFEP>>

\* the tail of one pass of the loop over the stages:
\* zwanzig_factor_avg_simulations.append(zwanzig_factor_avg)
EndStage ==
    /\ fep_variant = "staged"
    /\ fep_pc = "loop"
    /\ fep_step = n_steps_per_simulation
    /\ zwanzig_factor_avg_simulations' =
           Append(zwanzig_factor_avg_simulations, zwanzig_factor_avg)
    /\ il' = il + 1
    /\ fep_pc' = "next_stage"
    /\ UNCHANGED <<fepParams, fep_step, fep_previous_x, fep_same_shape, fep_total_frames,
                   zwanzig_factor_avg, zwanzig_factors, outsideFEP>>

\* the loop over the stages is left
FinishStages ==
    /\ fep_variant = "staged"
    /\ fep_pc \in {"checked", "next_stage"}
    /\ il = Stages(l_simulations)
    /\ fep_pc' = "done"
    /\ UNCHANGED <<fepParams, fep_step, fep_previous_x, fep_same_shape, fep_total_frames,
                   zwanzig_factor_avg, zwanzig_factors, il,
                   zwanzig_factor_avg_simulations, outsideFEP>>

NextFEP ==
    \/ CheckParameters
    \/ StartLoop
    \/ StartStage
    \/ FepStep
    \/ FinishRun
    \/ EndStage
    \/ FinishStages

IdleFEP ==
    /\ fep_variant = "direct"
    /\ l_simulations = 0
    /\ il = 0
    /\ zwanzig_factor_avg_simulations = <<>>
    /\ n_steps_per_simulation = 1
    /\ fep_total_steps = 0
    /\ fep_equilibration_steps = 0
    /\ fep_output_frequency = 1
    /\ fep_beta = 1
    /\ fep_timestep = 1
    /\ fep_diffusion_coefficient = 1
    /\ fep_pc = "done"
    /\ fep_step = 0
    /\ fep_previous_x = ConfigMid
    /\ fep_same_shape = TRUE
    /\ fep_total_frames = 0
    /\ zwanzig_factor_avg = <<>>
    /\ zwanzig_factors = <<>>

\* ------------------------------------------------------------ rare events
\* state_A_indicator and state_B_indicator of the rare-events notebook:
\* bounds (-inf, 0) and (0, +inf)
rare_state_A_indicator(x) == custom_bounded_state_below(x, 0)
rare_state_B_indicator(x) == custom_bounded_state_above(x, 0)

\* x_values = y_values = np.linspace(-2.6, 2.6, 200): a grid symmetric about
\* 0 with both end points on it; here the integers -GridHalf..GridHalf
GridSize == 2 * GridHalf + 1
GridValue(k) == -GridHalf + k
\* the point the n-th pass of the two nested loops evaluates, n = i *
\* GridSize + j: np.meshgrid indexes "xy", so x_grid[i, j] = x_values[j] and
\* y_grid[i, j] = y_values[i]
GridX(n) == GridValue(n % GridSize)
GridY(n) == GridValue(n \div GridSize)

\* an extended real: a finite value or +inf
Finite(v) == [fin |-> TRUE, val |-> v]
PlusInf == [fin |-> FALSE, val |-> 0]

\* a <= b on the extended reals
ExtLeq(a, b) == \/ ~b.fin
                \/ a.fin /\ b.fin /\ a.val <= b.val

\* np.min and np.max of an array of extended reals
ExtMin(f) == CHOOSE m \in {f[b] : b \in DOMAIN f} : \A b \in DOMAIN f : ExtLeq(m, f[b])
ExtMax(f) == CHOOSE m \in {f[b] : b \in DOMAIN f} : \A b \in DOMAIN f : ExtLeq(f[b], m)

\* a - b for a finite b: +inf stays +inf
ExtMinus(a, b) == IF a.fin THEN Finite(a.val - b.val) ELSE PlusInf

RECURSIVE Log2(_)
\* the binary logarithm of a power of two
Log2(n) == IF n <= 1 THEN 0 ELSE 1 + Log2(n \div 2)

RECURSIVE Pow2(_)
Pow2(k) == IF k = 0 THEN 1 ELSE 2 * Pow2(k - 1)

\* the bin counts the model draws: zero or a power of two
BinCounts == {0} \cup {Pow2(k) : k \in 0..MaxLog}

\* -1/beta*np.log(hist) of one bin, beta > 0, in units of ln(2)/beta and up to
\* the constant all bins share through the normalisation of the density:
\* np.log(0) is -inf, the free energy of an empty bin +inf
BoltzmannInvert(count) == IF count = 0 THEN PlusInf ELSE Finite(-Log2(count))

Bins == 1..NBins

\* np.histogram(trajectory_cv, bins=100) puts its range from the smallest to
\* the largest value, so the first and the last bin are not empty; when all
\* values are equal the range is widened by 0.5 to either side and the
\* values fall into the bin that holds the middle of the range
HistogramOfData(h) ==
    \/ h[1] > 0 /\ h[NBins] > 0
    \/ \A b \in Bins : (h[b] > 0) <=> (b = NBins \div 2 + 1)

\* the histogram of a trajectory that is not empty
InitRare ==
    /\ rare_pc = "histogram"
    /\ hist \in [Bins -> BinCounts]
    /\ HistogramOfData(hist)
    /\ free_energy = [b \in Bins |-> Finite(0)]
    /\ free_energy_max = Finite(0)
    /\ max_over_bins = {}
    /\ grid_point = 0
    /\ in_state_A = <<>>
    /\ in_state_B = <<>>

\* free_energy = -1/beta*np.log(hist)
BoltzmannInversion ==
    /\ rare_pc = "histogram"
    /\ rare_pc' = "inverted"
    /\ free_energy' = [b \in Bins |-> BoltzmannInvert(hist[b])]
    /\ UNCHANGED <<hist, free_energy_max, max_over_bins, grid_point,
                   in_state_A, in_state_B, outsideRare>>

\* free_energy -= np.min(free_energy)
ShiftFreeEnergy ==
    /\ rare_pc = "inverted"
    /\ rare_pc' = "shifted"
    /\ free_energy' = [b \in Bins |-> ExtMinus(free_energy[b], ExtMin(free_energy))]
    /\ UNCHANGED <<hist, free_energy_max, max_over_bins, grid_point,
                   in_state_A, in_state_B, outsideRare>>

\* the plotting cell: xmax=np.max(free_energy), taken over the whole array
PlotFreeEnergy ==
    /\ rare_pc = "shifted"
    /\ rare_pc' = "plotted"
    /\ free_energy_max' = ExtMax(free_energy)
    /\ max_over_bins' = DOMAIN free_energy
    /\ UNCHANGED <<hist, free_energy, grid_point, in_state_A, in_state_B, outsideRare>>

\* one pass of the nested loops over the grid: both indicators are evaluated
\* on the grid point
EvaluateGridPoint ==
    /\ rare_pc = "plotted"
    /\ grid_point < GridSize * GridSize
    /\ LET x == <<GridX(grid_point), GridY(grid_point)>>
       IN /\ in_state_A' = Append(in_state_A, rare_state_A_indicator(x))
          /\ in_state_B' = Append(in_state_B, rare_state_B_indicator(x))
    /\ grid_point' = grid_point + 1
    /\ UNCHANGED <<rare_pc, hist, free_energy, free_energy_max, max_over_bins, outsideRare>>

GridDone ==
    /\ rare_pc = "plotted"
    /\ grid_point = GridSize * GridSize
    /\ rare_pc' = "done"
    /\ UNCHANGED <<hist, free_energy, free_energy_max, max_over_bins, grid_point,
                   in_state_A, in_state_B, outsideRare>>

NextRare == BoltzmannInversion \/ ShiftFreeEnergy \/ PlotFreeEnergy
               \/ EvaluateGridPoint \/ GridDone

IdleRare ==
    /\ rare_pc = "done"
    /\ hist = [b \in Bins |-> 1]
    /\ free_energy = [b \in Bins |-> Finite(0)]
    /\ free_energy_max = Finite(0)
    /\ max_over_bins = {}
    /\ grid_point = 0
    /\ in_state_A = <<>>
    /\ in_state_B = <<>>

\* ------------------------------------------- rare events: recording MD loop
\* the three asserts that end the parameter cell
MdParameterAsserts ==
    /\ md_equilibration_steps < md_total_steps
    /\ md_output_frequency < md_total_steps
    /\ md_output_frequency > 0

\* np.zeros((total_frames, 2))
ZeroTrajectory(frames) == [n \in 0..(frames - 1) |-> <<0, 0>>]

\* the parameter cell before its asserts run; initial_x = -np.ones(2)
InitMD ==
    /\ md_total_steps \in 1..MaxMdSteps
    /\ md_equilibration_steps \in 0..MaxMdSteps
    /\ md_output_frequency \in 0..MaxMdSteps
    /\ md_pc = "params"
    /\ md_step = 0
    /\ md_previous_x = <<-Scale, -Scale>>
    /\ md_total_frames = 0
    /\ trajectory = <<>>
    /\ rows_written = <<>>

MdCheckParameters ==
    /\ md_pc = "params"
    /\ md_pc' = IF MdParameterAsserts THEN "checked" ELSE "assert_failed"
    /\ UNCHANGED <<mdParams, md_step, md_previous_x, md_total_frames, trajectory,
                   rows_written, outsideMD>>

\* the statements before the loop
MdStartLoop ==
    /\ md_pc = "checked"
    /\ md_total_frames' = TotalFrames(md_total_steps, md_equilibration_steps,
                                      md_output_frequency)
    /\ trajectory' = ZeroTrajectory(md_total_frames')
    /\ md_pc' = "loop"
    /\ UNCHANGED <<mdParams, md_step, md_previous_x, rows_written, outsideMD>>

\* one pass of "for step in range(total_steps)": a write past the last row
\* raises IndexError
MdStep ==
    /\ md_pc = "loop"
    /\ md_step < md_total_steps
    /\ \E next_x \in update_positions(md_previous_x) :
          /\ md_previous_x' = next_x
          /\ IF IsOutputStep(md_step, md_equilibration_steps, md_output_frequency)
             THEN LET index == FrameIndex(md_step, md_equilibration_steps,
                                          md_output_frequency)
                  IN IF index >= md_total_frames
                     THEN /\ md_pc' = "index_error"
                          /\ UNCHANGED <<md_step, trajectory, rows_written>>
                     ELSE /\ trajectory' = [trajectory EXCEPT ![index] = next_x]
                          /\ rows_written' = Append(rows_written, index)
                          /\ md_step' = md_step + 1
                          /\ md_pc' = "loop"
             ELSE /\ md_step' = md_step + 1
                  /\ UNCHANGED <<md_pc, trajectory, rows_written>>
    /\ UNCHANGED <<mdParams, md_total_frames, outsideMD>>

\* the loop is left
MdFinish ==
    /\ md_pc = "loop"
    /\ md_step = md_total_steps
    /\ md_pc' = "done"
    /\ UNCHANGED <<mdParams, md_step, md_previous_x, md_total_frames, trajectory,
                   rows_written, outsideMD>>

NextMD == MdCheckParameters \/ MdStartLoop \/ MdStep \/ MdFinish

IdleMD ==
    /\ md_total_steps = 0
    /\ md_equilibration_steps = 0
    /\ md_output_frequency = 1
    /\ md_pc = "done"
    /\ md_step = 0
    /\ md_previous_x = ConfigMid
    /\ md_total_frames = 0
    /\ trajectory = <<>>
    /\ rows_written = <<>>

\* ------------------------------------------ rare events: fleeting trajectories
\* custom_potential_energy of the rare-events notebook, times FleetingScale^4:
\* 10 * ((x0^2 - 1)^2 + (x0 - x1)^2)
fleeting_potential_energy(x) ==
    10 * ((x[1] * x[1] - FleetingScale * FleetingScale)
              * (x[1] * x[1] - FleetingScale * FleetingScale)
          + FleetingScale * FleetingScale * (x[1] - x[2]) * (x[1] - x[2]))

Coordinates == (-MaxCoordinate)..MaxCoordinate

\* update_positions: a step of the overdamped dynamics moves each coordinate
\* by at most one grid spacing
fleeting_update_positions(x) ==
    {y \in Coordinates \X Coordinates :
        /\ y[1] - x[1] \in -1..1
        /\ y[2] - x[2] \in -1..1}

\* 0.75*np.random.uniform(low=-1, high=1): the displacements of absolute
\* value below 0.75, 0 among them
Displacements ==
    {d \in (-MaxCoordinate)..MaxCoordinate :
        4 * d < 3 * FleetingScale /\ -4 * d < 3 * FleetingScale}

\* x_new = initial_x[0] + displacement; y_new = -x_new
ProposedPoint(x, d) == <<x[1] + d, -(x[1] + d)>>

\* e_old = custom_potential_energy(previous_x)
OldEnergy(walk_x, end_x) == fleeting_potential_energy(end_x)

\* test < np.exp(-beta*(e_new-e_old)), beta > 0 and test in [0, 1): certain
\* when e_new <= e_old, otherwise the draw decides
FleetingAccept(new_energy, old_energy, below) == new_energy <= old_energy \/ below

\* np.zeros((total_frames+1, 2)): the rows of one fleeting trajectory
ZeroFleetingTrajectory ==
    [n \in 0..TotalFrames(fleeting_total_steps, fleeting_equilibration_steps,
                          fleeting_output_frequency) |-> <<0, 0>>]

\* the cell of the fleeting trajectories before its outer loop
InitFleeting ==
    /\ n_fleeting_trajs \in 1..MaxFleetingTrajs
    /\ fleeting_pc = "head"
    /\ traj = 0
    /\ fleeting_step = 0
    /\ fleeting_previous_x = <<0, 0>>
    /\ initial_x = <<0, 0>>
    /\ fleeting_trajectory = ZeroFleetingTrajectory
    /\ acc = 0
    /\ proposed_x = <<0, 0>>
    /\ e_old = 0
    /\ e_new = 0
    /\ mc_draw_below = FALSE

\* the head of one pass of "for traj in range(n_fleeting_trajs)"
FleetingStart ==
    /\ fleeting_pc = "head"
    /\ traj < n_fleeting_trajs
    /\ fleeting_previous_x' = initial_x
    /\ fleeting_trajectory' = [ZeroFleetingTrajectory EXCEPT ![0] = initial_x]
    /\ fleeting_step' = 0
    /\ fleeting_pc' = "md"
    /\ UNCHANGED <<n_fleeting_trajs, traj, initial_x, acc, fleetingLocals,
                   outsideFleeting>>

\* one pass of the inner loop "for step in range(total_steps)"
FleetingMdStep ==
    /\ fleeting_pc = "md"
    /\ fleeting_step < fleeting_total_steps
    /\ \E next_x \in fleeting_update_positions(fleeting_previous_x) :
          /\ fleeting_previous_x' = next_x
          /\ IF IsOutputStep(fleeting_step, fleeting_equilibration_steps,
                             fleeting_output_frequency)
             THEN LET index == FrameIndex(fleeting_step, fleeting_equilibration_steps,
                                          fleeting_output_frequency)
                  IN fleeting_trajectory' =
                         [fleeting_trajectory EXCEPT ![index + 1] = next_x]
             ELSE UNCHANGED fleeting_trajectory
    /\ fleeting_step' = fleeting_step + 1
    /\ UNCHANGED <<n_fleeting_trajs, fleeting_pc, traj, initial_x, acc, fleetingLocals,
                   outsideFleeting>>

\* the Monte Carlo move that ends one pass of the outer loop
MonteCarloMove ==
    /\ fleeting_pc = "md"
    /\ fleeting_step = fleeting_total_steps
    /\ \E d \in Displacements, below \in BOOLEAN :
          /\ ProposedPoint(initial_x, d) \in Coordinates \X Coordinates
          /\ proposed_x' = ProposedPoint(initial_x, d)
          /\ e_old' = OldEnergy(initial_x, fleeting_previous_x)
          /\ e_new' = fleeting_potential_energy(proposed_x')
          /\ mc_draw_below' = below
          /\ IF FleetingAccept(e_new', e_old', below)
             THEN /\ initial_x' = proposed_x'
                  /\ acc' = acc + 1
             ELSE UNCHANGED <<initial_x, acc>>
    /\ traj' = traj + 1
    /\ fleeting_pc' = "head"
    /\ UNCHANGED <<n_fleeting_trajs, fleeting_step, fleeting_previous_x,
                   fleeting_trajectory, outsideFleeting>>

\* the outer loop is left and the acceptance ratio is printed
FleetingFinish ==
    /\ fleeting_pc = "head"
    /\ traj = n_fleeting_trajs
    /\ fleeting_pc' = "done"
    /\ UNCHANGED <<n_fleeting_trajs, traj, fleeting_step, fleeting_previous_x, initial_x,
                   fleeting_trajectory, acc, fleetingLocals, outsideFleeting>>

NextFleeting == FleetingStart \/ FleetingMdStep \/ MonteCarloMove \/ FleetingFinish

IdleFleeting ==
    /\ n_fleeting_trajs = 0
    /\ fleeting_pc = "done"
    /\ traj = 0
    /\ fleeting_step = 0
    /\ fleeting_previous_x = <<0, 0>>
    /\ initial_x = <<0, 0>>
    /\ fleeting_trajectory = <<>>
    /\ acc = 0
    /\ proposed_x = <<0, 0>>
    /\ e_old = 0
    /\ e_new = 0
    /\ mc_draw_below = FALSE

\* ------------------------------------------------------------ specifications
\* the parts of the state a specification does not run stay as they are here
IdleTPS ==
    /\ mode = "fixed"
    /\ total_trials = 0
    /\ equilibration_trials = 0
    /\ path_output_frequency = 1
    /\ trial = 0
    /\ current_path = InitialPath
    /\ accepted_trials = 0
    /\ accepted_shooting_points = <<>>
    /\ trajectory_ensemble = <<>>
    /\ forward_len = 0
    /\ forward_end = InitialPath[1]
    /\ reverse_len = 0
    /\ reverse_end = InitialPath[1]
    /\ is_reactive_path = FALSE
    /\ length_ratio = <<1, 1>>
    /\ uniform_draw = 0

IdleGen ==
    /\ gen_kind = "path"
    /\ gen_start = InitialPath[1]
    /\ gen_steps = 0
    /\ gen_stride = 1
    /\ gen_pc = "returned"
    /\ gen = GenPathStart(InitialPath[1])

\* the two TPS cells
InitSpecTPS == InitTPS /\ IdleGen /\ IdleREMD /\ IdleFEP /\ IdleRare /\ IdleMD /\ IdleFleeting
SpecTPS == InitSpecTPS /\ [][NextTPS]_vars

\* one call of generate_path or generate_path_to_state
InitSpecGen == InitGen /\ IdleTPS /\ IdleREMD /\ IdleFEP /\ IdleRare /\ IdleMD /\ IdleFleeting
SpecGen == InitSpecGen /\ [][NextGen]_vars

\* the replica-exchange loop
InitSpecREMD == InitREMD /\ IdleTPS /\ IdleGen /\ IdleFEP /\ IdleRare /\ IdleMD /\ IdleFleeting
SpecREMD == InitSpecREMD /\ [][NextREMD]_vars

\* the direct free-energy-perturbation cells
InitSpecFEP == InitFEP /\ IdleTPS /\ IdleGen /\ IdleREMD /\ IdleRare /\ IdleMD /\ IdleFleeting
SpecFEP == InitSpecFEP /\ [][NextFEP]_vars

\* the Boltzmann inversion and the state indicators of the rare-events notebook
InitSpecRare == InitRare /\ IdleTPS /\ IdleGen /\ IdleREMD /\ IdleFEP /\ IdleMD /\ IdleFleeting
SpecRare == InitSpecRare /\ [][NextRare]_vars

\* the MD loop of the rare-events notebook that records a trajectory
InitSpecMD == InitMD /\ IdleTPS /\ IdleGen /\ IdleREMD /\ IdleFEP /\ IdleRare /\ IdleFleeting
SpecMD == InitSpecMD /\ [][NextMD]_vars

\* the fleeting trajectories and the Monte Carlo walk that starts them
InitSpecFleeting == InitFleeting /\ IdleTPS /\ IdleGen /\ IdleREMD /\ IdleFEP /\ IdleRare /\ IdleMD
SpecFleeting == InitSpecFleeting /\ [][NextFleeting]_vars

\* ------------------------------------------------------- claims: TPS loops
TrialStep == trial' = trial + 1
AcceptedStep == accepted_trials' = accepted_trials + 1

\* C1: in both TPS loops, at every trial t exactly one entry, equal to
\* current_path as it stands at the end of the trial, is appended to
\* trajectory_ensemble when t > equilibration_trials and t is a multiple of
\* path_output_frequency, whether the trial was accepted or rejected; at every
\* other trial nothing is appended.
C1_EnsembleHoldsCurrentPathAtSampledTrials ==
    [][TrialStep =>
        IF trial > equilibration_trials /\ trial % path_output_frequency = 0
        THEN trajectory_ensemble' = Append(trajectory_ensemble, current_path')
        ELSE trajectory_ensemble' = trajectory_ensemble]_vars

\* a sampled trial was rejected after an earlier acceptance: the ensemble
\* repeats the carried-over path
C1_Witness ==
    /\ trial >= 2
    /\ ~is_reactive_path
    /\ accepted_trials >= 1
    /\ (trial - 1) > equilibration_trials
    /\ (trial - 1) % path_output_frequency = 0
    /\ Len(trajectory_ensemble) >= 2
    /\ trajectory_ensemble[Len(trajectory_ensemble)] = current_path
    /\ trajectory_ensemble[Len(trajectory_ensemble) - 1] = current_path

\* C2: in the fixed-length loop a trial is accepted iff the last forward
\* configuration is in B and the last backward one in A, or the last forward
\* one in A and the last backward one in B; the test is the same with forward
\* and backward exchanged, and no random number is drawn.
C2_FixedAcceptsIffReactive ==
    [][(mode = "fixed" /\ TrialStep) =>
        LET fw_A == state_A_indicator(forward_end')
            fw_B == state_B_indicator(forward_end')
            rv_A == state_A_indicator(reverse_end')
            rv_B == state_B_indicator(reverse_end')
        IN /\ AcceptedStep <=> ((fw_B /\ rv_A) \/ (fw_A /\ rv_B))
           /\ ~AcceptedStep => accepted_trials' = accepted_trials
           /\ is_reactive_path' <=> ((fw_B /\ rv_A) \/ (fw_A /\ rv_B))
           /\ IsReactivePath(fw_A, fw_B, rv_A, rv_B)
                  <=> IsReactivePath(rv_A, rv_B, fw_A, fw_B)
           /\ uniform_draw' = uniform_draw]_vars

\* a fixed-length trial accepted in the direction forward -> A, backward -> B
C2_Witness ==
    /\ mode = "fixed"
    /\ trial >= 1
    /\ is_reactive_path
    /\ state_A_indicator(forward_end)
    /\ state_B_indicator(reverse_end)
    /\ accepted_trials >= 1
    /\ Last(current_path) = forward_end

\* C3: in the flexible-length loop a reactive proposal is accepted exactly
\* when the uniform draw u is below min(1, N_old / N_new): always when
\* N_new <= N_old (N_old = 100, N_new = 50), exactly for u < 1/2 when
\* N_new = 2 * N_old (N_old = 100, N_new = 200); a non-reactive proposal is
\* never accepted.
C3_FlexibleAcceptsBelowLengthRatio ==
    /\ \A d \in 0..(UDen - 1) :
          /\ AcceptLength(<<100, 50>>, d)
          /\ AcceptLength(<<100, 200>>, d) <=> (2 * d < UDen)
    /\ [][(mode = "flexible" /\ TrialStep) =>
          LET n_old == length_ratio'[1]
              n_new == length_ratio'[2]
              smaller == IF n_old < n_new THEN n_old ELSE n_new
          IN /\ ~is_reactive_path' => ~AcceptedStep
             /\ is_reactive_path' =>
                  /\ n_old = Len(current_path) - 1
                  /\ AcceptedStep <=> (uniform_draw' * n_new < UDen * smaller)
                  /\ (n_new <= n_old) => AcceptedStep
                  /\ (n_new = 2 * n_old) => (AcceptedStep <=> 2 * uniform_draw' < UDen)]_vars

\* a reactive proposal twice as long as the old path, accepted on a draw
\* below 1/2
C3_Witness ==
    /\ mode = "flexible"
    /\ is_reactive_path
    /\ length_ratio[2] = 2 * length_ratio[1]
    /\ 2 * uniform_draw < UDen
    /\ uniform_draw > 0
    /\ Len(current_path) = forward_len + reverse_len - 1
    /\ Last(current_path) = forward_end
    /\ accepted_trials >= 2

\* the last trial was rejected: not reactive, or (flexible length) reactive
\* with a draw not below the length ratio
RejectedProposal ==
    \/ ~is_reactive_path
    \/ /\ mode = "flexible"
       /\ is_reactive_path
       /\ length_ratio[1] < length_ratio[2]
       /\ uniform_draw * length_ratio[2] >= UDen * length_ratio[1]

\* C4: a rejected trial leaves current_path, accepted_trials and
\* accepted_shooting_points unchanged and the loop goes on: the run stops
\* only after total_trials trials.
C4_RejectionKeepsPathAndLoopContinues ==
    /\ [][(TrialStep /\ RejectedProposal') =>
            /\ current_path' = current_path
            /\ accepted_trials' = accepted_trials
            /\ accepted_shooting_points' = accepted_shooting_points]_vars
    /\ [](trial <= total_trials)
    /\ []((trial < total_trials) => ENABLED NextTPS)

\* a run that ended on a reactive proposal rejected by the length-ratio draw
C4_Witness ==
    /\ mode = "flexible"
    /\ trial = total_trials
    /\ is_reactive_path
    /\ length_ratio[1] < length_ratio[2]
    /\ uniform_draw * length_ratio[2] >= UDen * length_ratio[1]
    /\ accepted_trials = 1
    /\ Len(current_path) = length_ratio[1] + 1

\* ---------------------------------------------- claims: trajectory generators
\* the CV of x lies below -2 or above 2: x satisfies a state predicate
SatisfiesStatePredicate(x) ==
    custom_cv(x) < -2 * Scale \/ custom_cv(x) > 2 * Scale

\* the generator has hit a state or used up its step budget
GenHasStopped ==
    SatisfiesStatePredicate(Last(gen.trajectory)) \/ gen.step >= gen_steps

ToStateCallFromOutside ==
    /\ gen_kind = "to_state"
    /\ gen_pc # "call"
    /\ gen_stride = 1
    /\ ~SatisfiesStatePredicate(gen_start)

\* C5: generate_path_to_state with output stride 1 and a start outside every
\* state takes at most path_length integrator steps and returns at most
\* path_length + 1 configurations; no configuration but the last satisfies a
\* state predicate; when fewer than path_length steps were taken the last
\* configuration satisfies one; and once stopped the trajectory never grows.
C5_ToStateStopsAtFirstStateHit ==
    /\ [](ToStateCallFromOutside =>
            /\ gen.step <= gen_steps
            /\ Len(gen.trajectory) <= gen_steps + 1
            /\ Len(gen.trajectory) = gen.step + 1
            /\ \A i \in 1..(Len(gen.trajectory) - 1) :
                   ~SatisfiesStatePredicate(gen.trajectory[i])
            /\ (gen_pc = "returned" /\ gen.step < gen_steps)
                   => SatisfiesStatePredicate(Last(gen.trajectory))
            /\ (gen_pc = "returned") <=> GenHasStopped)
    /\ [][(ToStateCallFromOutside /\ GenHasStopped) => gen' = gen]_vars

\* a call that started on the boundary of A (CV exactly -2, outside the
\* state) and stopped inside a state before its budget was used up
C5_Witness ==
    /\ ToStateCallFromOutside
    /\ gen_pc = "returned"
    /\ custom_cv(gen_start) = -2 * Scale
    /\ gen.step >= 2
    /\ gen.step < gen_steps
    /\ SatisfiesStatePredicate(Last(gen.trajectory))

\* C6: when the start already satisfies a state predicate,
\* generate_path_to_state takes no integrator step and returns the start
\* point alone.
C6_ToStateFromInsideReturnsStartOnly ==
    (gen_kind = "to_state" /\ gen_pc # "call" /\ SatisfiesStatePredicate(gen_start)) =>
        /\ gen_pc = "returned"
        /\ gen.step = 0
        /\ gen.trajectory = <<gen_start>>

\* a returned call whose start lies in B
C6_Witness ==
    /\ gen_kind = "to_state"
    /\ gen_pc = "returned"
    /\ custom_cv(gen_start) > 2 * Scale
    /\ gen_steps >= 2
    /\ Len(gen.trajectory) = 1

\* ceil(n / s) for n >= 0, s >= 1
CeilDiv(n, s) == (n + s - 1) \div s

\* C7: for N >= 1 steps and output stride s >= 1 generate_path returns
\* exactly ceil(N / s) + 1 configurations, the first of them the shooting
\* point, whatever the random draws.
C7_GeneratePathLength ==
    (gen_kind = "path" /\ gen_pc = "returned") =>
        /\ gen.step = gen_steps
        /\ Len(gen.trajectory) = CeilDiv(gen_steps, gen_stride) + 1
        /\ gen.trajectory[1] = gen_start

\* a returned call whose stride does not divide the number of steps
C7_Witness ==
    /\ gen_kind = "path"
    /\ gen_pc = "returned"
    /\ gen_stride >= 2
    /\ gen_steps % gen_stride # 0
    /\ gen_steps > gen_stride
    /\ Len(gen.trajectory) >= 3

\* ------------------------------------------------- claims: replica exchange
RECURSIVE SumUpTo(_, _)
\* f[0] + ... + f[n-1]
SumUpTo(f, n) == IF n = 0 THEN 0 ELSE f[n - 1] + SumUpTo(f, n - 1)

\* the sum of all attempted-pair counts: the matrix holds the count of the
\* pair of i and j in both entries [i][j] and [j][i], so each pair is taken
\* once, with i <= j
AttemptsRecorded ==
    SumUpTo([i \in Replicas |->
                SumUpTo([j \in Replicas |->
                            IF i <= j THEN exchange_matrix[i][j] ELSE 0], N_replicas)],
            N_replicas)

RemdRunEnded == N_replicas >= 2 /\ remd_step = remd_total_steps

\* C8 as stated: at the end of a replica-exchange run the number of swap
\* attempts recorded equals total_steps // exchange_frequency.
C8_AttemptsEqualFloorQuotient ==
    RemdRunEnded => AttemptsRecorded = remd_total_steps \div exchange_frequency

\* C8, amended: an exchange is attempted at every step of 0..total_steps-1
\* that exchange_frequency divides, the first at step 0: after k steps
\* ceil(k / exchange_frequency) attempts are recorded, ceil(total_steps /
\* exchange_frequency) at the end of the run, which is total_steps //
\* exchange_frequency exactly when exchange_frequency divides total_steps.
C8_AttemptsEqualCeilQuotient ==
    (N_replicas >= 2) =>
        /\ AttemptsRecorded = CeilDiv(remd_step, exchange_frequency)
        /\ RemdRunEnded =>
             /\ AttemptsRecorded = CeilDiv(remd_total_steps, exchange_frequency)
             /\ (AttemptsRecorded = remd_total_steps \div exchange_frequency)
                    <=> (remd_total_steps % exchange_frequency = 0)

\* the end of a run whose length is no multiple of exchange_frequency
C8_Witness ==
    /\ RemdRunEnded
    /\ remd_total_steps % exchange_frequency # 0
    /\ AttemptsRecorded = (remd_total_steps \div exchange_frequency) + 1
    /\ AttemptsRecorded >= 2

ExchangeAttempted == exchange_matrix' # exchange_matrix

\* every configuration occurs as often among ys as among xs
SameConfigurations(xs, ys) ==
    \A c \in Configs :
        Cardinality({r \in Replicas : xs[r] = c}) = Cardinality({r \in Replicas : ys[r] = c})

\* C9: the inverse temperature of a replica index never changes; an accepted
\* swap between i and j exchanges exactly x_i and x_j, a rejected one changes
\* no configuration; an exchange step preserves the multiset of the
\* configurations.
C9_SwapExchangesConfigurationsOnly ==
    [][/\ betas' = betas
       /\ ExchangeAttempted =>
            /\ exchange_accepted' =>
                 replica_x' = [replica_x EXCEPT ![exchange_i'] = replica_x[exchange_j'],
                                                ![exchange_j'] = replica_x[exchange_i']]
            /\ ~exchange_accepted' => replica_x' = replica_x
            /\ SameConfigurations(replica_x, replica_x')]_vars

\* an accepted swap of two replicas holding different configurations
C9_Witness ==
    /\ N_replicas >= 2
    /\ exchange_accepted
    /\ exchange_i # exchange_j
    /\ propagated = {}
    /\ remd_step >= 1
    /\ replica_x[exchange_i] # replica_x[exchange_j]

\* C10: an exchange attempt reads the configurations only after all replicas
\* have been propagated in the current step, whatever the order in which they
\* were propagated: every configuration it reads was produced in this step.
C10_ExchangeReadsSameStepConfigurations ==
    [][ExchangeAttempted =>
          /\ \A r \in Replicas : replica_stamp[r] = remd_step
          /\ propagated = Replicas]_vars

\* an exchange about to be attempted at a step after the first one, every
\* replica having been propagated in that step
C10_Witness ==
    /\ N_replicas >= 2
    /\ remd_step >= 1
    /\ remd_step < remd_total_steps
    /\ remd_step % exchange_frequency = 0
    /\ propagated = Replicas
    /\ \A r \in Replicas : replica_stamp[r] = remd_step

\* the pair the last attempt selected was a replica and itself
SelfExchangeAttempted == ExchangeAttempted /\ exchange_i' = exchange_j'

\* C11 as stated: no exchange attempt is made with i = j, and the diagonal of
\* the exchange matrix stays zero in every reachable state of a run with at
\* least two replicas.
C11_NoSelfExchange ==
    /\ [][(N_replicas >= 2) => ~SelfExchangeAttempted]_vars
    /\ []((N_replicas >= 2) => \A r \in Replicas : exchange_matrix[r][r] = 0)

MatrixAllZero == \A i \in Replicas : \A j \in Replicas : exchange_matrix[i][j] = 0

\* C12 as stated: with one replica the run makes no exchange attempt and the
\* exchange matrix stays all zero; the run never takes more than total_steps
\* steps and an exchange step leaves the trajectory as the propagation made
\* it.
C12_SingleReplicaMakesNoAttempt ==
    /\ []((N_replicas = 1) => MatrixAllZero /\ remd_step <= remd_total_steps)
    /\ [][(N_replicas = 1) => ~ExchangeAttempted]_vars
    /\ [][(N_replicas = 1 /\ remd_step' # remd_step) => replica_x' = replica_x]_vars

\* a step of the loop that ran the exchange code
ExchangeStepTaken ==
    remd_step' = remd_step + 1 /\ remd_step % exchange_frequency = 0

\* C13: the exchange matrix is symmetric in every reachable state, its
\* entries are non-negative integers that never decrease from one step to
\* the next, and all are zero at the start of the run.
C13_MatrixSymmetricMonotone ==
    /\ [](\A i \in Replicas : \A j \in Replicas :
              /\ exchange_matrix[i][j] = exchange_matrix[j][i]
              /\ exchange_matrix[i][j] \in Nat)
    /\ [][\A i \in Replicas : \A j \in Replicas :
              exchange_matrix'[i][j] >= exchange_matrix[i][j]]_vars
    /\ [][ExchangeStepTaken =>
              \E i \in Replicas : \E j \in Replicas :
                  exchange_matrix'[i][j] > exchange_matrix[i][j]]_vars
    /\ []((remd_step = 0) => MatrixAllZero)

\* two attempts on the pair of replica 0 and replica 1, the last one drawn
\* as i = 0, j = 1: both entries of the pair hold the count
C13_Witness ==
    /\ N_replicas >= 2
    /\ exchange_i = 0
    /\ exchange_j = 1
    /\ exchange_matrix[0][1] = 2
    /\ exchange_matrix[1][0] = 2
    /\ exchange_matrix[0][0] = 0

\* the exponent of the attempt that led to the current state: an accepted
\* swap has exchanged x_i and x_j since it was evaluated
LastExponent ==
    IF exchange_accepted
    THEN MetropolisExponent(replica_x, betas, exchange_j, exchange_i)
    ELSE MetropolisExponent(replica_x, betas, exchange_i, exchange_j)

\* C14: a swap is accepted for every value of the uniform draw whenever
\* Delta U * (beta_i - beta_j) <= 0, in particular with beta_i = 1,
\* beta_j = 2 and Delta U = 0; when the product is positive the draw decides,
\* acceptance and rejection both being possible.
C14_SwapCertainForNonPositiveExponent ==
    /\ [][ExchangeAttempted =>
            /\ (MetropolisExponent(replica_x, betas, exchange_i', exchange_j') <= 0)
                   => exchange_accepted'
            /\ (custom_potential_energy(replica_x[exchange_i'])
                   = custom_potential_energy(replica_x[exchange_j']))
                   => exchange_accepted']_vars
    /\ \A below \in BOOLEAN : MetropolisAccept(0 * (1 - 2), below)
    /\ \A exponent \in 1..UDen :
          MetropolisAccept(exponent, TRUE) /\ ~MetropolisAccept(exponent, FALSE)

\* an attempt with a negative exponent (the hotter replica held the lower
\* energy) that was accepted and has exchanged two different configurations
C14_Witness ==
    /\ N_replicas >= 2
    /\ remd_step >= 1
    /\ propagated = {}
    /\ exchange_accepted
    /\ exchange_i # exchange_j
    /\ exchange_matrix[exchange_i][exchange_j] >= 1
    /\ LastExponent < 0

\* ------------------------------------- claims: integrator and FEP loop
\* one pass of the FEP loop body
FepStepTaken == fep_pc = "loop" /\ fep_step < LoopSteps

\* update_positions has raised in the last pass
FepStepFailed == fep_pc' = "step_failed"

\* C15: update_positions fails with an assertion error, returning no
\* configuration, whenever dt <= 0, diffusion_coeff <= 0, beta <= 0 or the
\* force shape differs from the configuration shape, and succeeds otherwise;
\* when it fails inside the loop the loop stops at that step and previous_x
\* keeps the value it had before the call.
C15_UpdatePositionsFailsFast ==
    /\ [][FepStepTaken =>
            IF \/ fep_timestep <= 0
               \/ fep_diffusion_coefficient <= 0
               \/ fep_beta <= 0
               \/ ~fep_same_shape'
            THEN /\ FepStepFailed
                 /\ fep_previous_x' = fep_previous_x
                 /\ fep_step' = fep_step
                 /\ zwanzig_factor_avg' = zwanzig_factor_avg
            ELSE /\ ~FepStepFailed
                 /\ fep_previous_x' \in Configs
                 /\ fep_step' = fep_step + 1]_vars
    /\ [][fep_pc # "step_failed"]_vars

\* a run with valid parameters stopped after its first step by a force of
\* the wrong shape, previous_x holding what the first step produced
C15_Witness ==
    /\ fep_pc = "step_failed"
    /\ fep_step >= 1
    /\ ~fep_same_shape
    /\ fep_timestep > 0 /\ fep_diffusion_coefficient > 0 /\ fep_beta > 0
    /\ fep_previous_x # ConfigMid

RECURSIVE SeqSum(_, _)
\* seq[1] + ... + seq[n]
SeqSum(seq, n) == IF n = 0 THEN 0 ELSE seq[n] + SeqSum(seq, n - 1)

\* C16 as stated: after every call n of running_average in the FEP loop the
\* stored average is the arithmetic mean of the samples x_0..x_n; after the
\* first call it is the first sample x_0.
C16_RunningAverageIsMean ==
    (fep_pc \in {"loop", "done", "step_failed"}) =>
        \A n \in 0..(Len(zwanzig_factors) - 1) :
            zwanzig_factor_avg[n + 1][1] * (n + 1)
                = SeqSum(zwanzig_factors, n + 1) * zwanzig_factor_avg[n + 1][2]

\* C17 as stated: when every recorded Zwanzig factor equals 1 the last entry
\* of zwanzig_factor_avg is exactly 1 at the end of every run that recorded
\* at least one frame.
C17_IdenticalPotentialsAverageOne ==
    (/\ fep_pc = "done"
     /\ Len(zwanzig_factors) >= 1
     /\ \A n \in 1..Len(zwanzig_factors) : zwanzig_factors[n] = 1)
        => zwanzig_factor_avg[fep_total_frames] = <<1, 1>>

\* C18 as stated: the FEP loop, which iterates over total_steps, only starts
\* with equilibration_steps < total_steps and 0 < output_frequency <
\* total_steps.
C18_LoopStartsOnlyAfterChecksOnItsStepCount ==
    (fep_variant = "direct" /\ fep_pc \in {"loop", "done", "step_failed"}) =>
        /\ fep_equilibration_steps < fep_total_steps
        /\ 0 < fep_output_frequency
        /\ fep_output_frequency < fep_total_steps

\* ----------------------------------------------------- claims: rare events
\* C19 as stated: for every configuration exactly one of h_A(x), h_B(x) is
\* true, h_A(x) + h_B(x) = 1; here for every grid point evaluated so far.
C19_IndicatorsPartitionConfigurations ==
    \A n \in 1..Len(in_state_A) : in_state_A[n] # in_state_B[n]

\* C20 as stated: a bin with zero count never receives a finite free-energy
\* value, the shift by the minimum does not make it finite, and it is not
\* included in a later comparison over bins such as np.max(free_energy).
C20_EmptyBinsStayUndefinedAndExcluded ==
    /\ (rare_pc # "histogram") =>
          \A b \in Bins : (hist[b] = 0) => ~free_energy[b].fin
    /\ \A b \in max_over_bins : hist[b] # 0
    /\ free_energy_max.fin

\* ------------------------------------------- claims: TPS paths and counters
\* the set of the configurations of a path
Range(seq) == {seq[n] : n \in 1..Len(seq)}

\* C21: on every accepted trial the new current_path has len(reverse_trj) +
\* len(forward_trj) - 1 configurations, begins with the last configuration of
\* the backward trajectory, ends with the last one of the forward trajectory
\* and holds the shooting point at index len(reverse_trj) - 1 (counted from
\* 0), the first point of the forward trajectory being dropped.
C21_AcceptedPathAssembly ==
    [][AcceptedStep =>
          /\ Len(current_path') = reverse_len' + forward_len' - 1
          /\ current_path'[1] = reverse_end'
          /\ Last(current_path') = forward_end'
          /\ current_path'[reverse_len'] = Last(accepted_shooting_points')]_vars

\* an accepted fixed-length trial: both sub-trajectories have left the
\* shooting point, which lies inside the new path
C21_Witness ==
    /\ mode = "fixed"
    /\ trial >= 1
    /\ is_reactive_path
    /\ reverse_len >= 2
    /\ forward_len >= 3
    /\ Len(current_path) = reverse_len + forward_len - 1
    /\ current_path[reverse_len] = Last(accepted_shooting_points)
    /\ current_path[reverse_len] # current_path[1]

\* C22: after every trial accepted_trials is the length of
\* accepted_shooting_points and at most the number of trials performed; a
\* recorded shooting point is a configuration of the path that was
\* current_path at the start of its trial and of the path accepted in it.
C22_ShootingPointsMatchAcceptedTrials ==
    /\ [](/\ accepted_trials = Len(accepted_shooting_points)
          /\ accepted_trials <= trial)
    /\ [][AcceptedStep =>
            /\ Len(accepted_shooting_points') = Len(accepted_shooting_points) + 1
            /\ Last(accepted_shooting_points') \in Range(current_path)
            /\ Last(accepted_shooting_points') \in Range(current_path')]_vars
    /\ [][TrialStep /\ ~AcceptedStep =>
            accepted_shooting_points' = accepted_shooting_points]_vars

\* two accepted trials and a rejected one
C22_Witness ==
    /\ accepted_trials = 2
    /\ Len(accepted_shooting_points) = 2
    /\ trial = 3

\* a path with one end in state A and the other in state B
IsReactive(path) ==
    \/ state_A_indicator(path[1]) /\ state_B_indicator(Last(path))
    \/ state_B_indicator(path[1]) /\ state_A_indicator(Last(path))

\* C23 as stated: every path appended to trajectory_ensemble is reactive,
\* the paths appended before the first acceptance too.
C23_EnsemblePathsAreReactive ==
    \A k \in 1..Len(trajectory_ensemble) : IsReactive(trajectory_ensemble[k])

\* a reactive trial of the flexible-length loop: length_ratio is evaluated
RatioEvaluated == TrialStep /\ mode = "flexible" /\ is_reactive_path'

\* C24 as stated: length_ratio equals (len(current_path) - 1) /
\* (len(new_path) - 1); a reactive proposal as long as current_path has
\* length_ratio = 1 and is accepted for every draw.
C24_LengthRatioMeasuresBothPathsAlike ==
    [][RatioEvaluated =>
          LET new_len == reverse_len' + forward_len' - 1
          IN /\ length_ratio'[1] * (new_len - 1)
                    = length_ratio'[2] * (Len(current_path) - 1)
             /\ (new_len = Len(current_path)) =>
                    /\ length_ratio'[1] = length_ratio'[2]
                    /\ AcceptedStep]_vars

\* C25: current_path has at least two configurations in every reachable
\* state of both loops, and so has every ensemble entry; N_old >= 1 and
\* N_new >= 1 at every evaluation of length_ratio; the shooting-point index
\* range is never empty.
C25_PathsKeepTwoConfigurations ==
    /\ Len(current_path) >= 2
    /\ {n \in 1..Len(current_path) : TRUE} # {}
    /\ length_ratio[1] >= 1
    /\ length_ratio[2] >= 1
    /\ \A k \in 1..Len(trajectory_ensemble) : Len(trajectory_ensemble[k]) >= 2

\* a flexible-length run that has evaluated the ratio of a path of two
\* steps to a longer one and holds an accepted path
C25_Witness ==
    /\ mode = "flexible"
    /\ accepted_trials >= 1
    /\ length_ratio[1] >= 2
    /\ length_ratio[2] > length_ratio[1]
    /\ Len(current_path) >= 3

\* C26: in the flexible-length loop a trial whose shooting point lies inside
\* A or B is never accepted: both sub-trajectories are the shooting point
\* alone, the proposal is not reactive, and current_path, accepted_trials and
\* accepted_shooting_points stay as they are.  Every flexible-length path has
\* its configurations other than the two end points outside both states.
C26_ShootingFromStateIsRejected ==
    /\ [][(AcceptedStep /\ mode = "flexible") =>
             ~SatisfiesStatePredicate(Last(accepted_shooting_points'))]_vars
    /\ [][(TrialStep /\ mode = "flexible" /\ (forward_len' = 1 \/ reverse_len' = 1)) =>
             /\ forward_len' = 1 /\ reverse_len' = 1
             /\ forward_end' = reverse_end'
             /\ SatisfiesStatePredicate(forward_end')
             /\ forward_end' \in Range(current_path)
             /\ ~is_reactive_path'
             /\ current_path' = current_path
             /\ accepted_trials' = accepted_trials
             /\ accepted_shooting_points' = accepted_shooting_points]_vars
    /\ []((mode = "flexible") =>
             \A n \in 2..(Len(current_path) - 1) :
                 ~SatisfiesStatePredicate(current_path[n]))

\* a flexible-length trial shot from the end point, inside a state, of a
\* path accepted before
C26_Witness ==
    /\ mode = "flexible"
    /\ accepted_trials >= 1
    /\ forward_len = 1
    /\ reverse_len = 1
    /\ SatisfiesStatePredicate(forward_end)
    /\ forward_end \in {current_path[1], Last(current_path)}
    /\ ~is_reactive_path

\* C27 as stated: in the fixed-length loop every path held in current_path
\* or in trajectory_ensemble has path_length configurations, as the initial
\* path has.
C27_FixedLengthPathsKeepPathLength ==
    (mode = "fixed" /\ total_trials > 0) =>
        /\ Len(current_path) = path_length
        /\ \A k \in 1..Len(trajectory_ensemble) :
              Len(trajectory_ensemble[k]) = path_length

\* ------------------------------------------- claims: FEP running averages
\* the loop over the stages sets up a stage
StageStarted ==
    fep_variant = "staged" /\ fep_pc \in {"checked", "next_stage"} /\ fep_pc' = "loop"

\* the loop over the stages stores the averages of a stage
StageEnded == fep_variant = "staged" /\ fep_pc = "loop" /\ fep_pc' = "next_stage"

\* C29: in the FEP loops, for every recorded frame index k >= 1 the entry
\* zwanzig_factor_avg[k+1] is the arithmetic mean of the Zwanzig factors of
\* the frames 1..k, the factor of frame 0 being discarded, and
\* zwanzig_factor_avg[0] = zwanzig_factor_avg[1] = 0; in the staged variant
\* each of the l_simulations - 1 stages starts from a fresh all-zero array
\* and stores the averages of its own frames.
C29_AveragesSkipFrameZeroPerStage ==
    /\ []((fep_pc \in {"loop", "next_stage", "step_failed", "done"}
             /\ DOMAIN zwanzig_factor_avg # {}) =>
            /\ zwanzig_factor_avg[0] = <<0, 1>>
            /\ (fep_total_frames >= 1) => zwanzig_factor_avg[1] = <<0, 1>>
            /\ \A k \in 1..(Len(zwanzig_factors) - 1) :
                  zwanzig_factor_avg[k + 1][1] * k =
                      (SeqSum(zwanzig_factors, k + 1) - zwanzig_factors[1])
                          * zwanzig_factor_avg[k + 1][2]
            /\ \A k \in (Len(zwanzig_factors) + 1)..fep_total_frames :
                  zwanzig_factor_avg[k] = <<0, 1>>)
    /\ [][StageStarted =>
            /\ \A n \in DOMAIN zwanzig_factor_avg' : zwanzig_factor_avg'[n] = <<0, 1>>
            /\ zwanzig_factors' = <<>>
            /\ fep_step' = 0]_vars
    /\ [][StageEnded =>
            /\ Len(zwanzig_factor_avg_simulations') = il + 1
            /\ zwanzig_factor_avg_simulations'[il + 1] = zwanzig_factor_avg
            /\ \A n \in 1..il : zwanzig_factor_avg_simulations'[n]
                                    = zwanzig_factor_avg_simulations[n]]_vars
    /\ []((fep_variant = "staged" /\ fep_pc = "done" /\ l_simulations >= 1) =>
            Len(zwanzig_factor_avg_simulations) = l_simulations - 1)

\* the second stage of a staged run has recorded three frames whose last
\* two factors differ; the first stage has stored averages of its own
C29_Witness ==
    /\ fep_variant = "staged"
    /\ il = 1
    /\ fep_pc = "loop"
    /\ Len(zwanzig_factors) = 3
    /\ zwanzig_factors[1] = 2
    /\ zwanzig_factors[2] = 1
    /\ zwanzig_factors[3] = 2
    /\ zwanzig_factor_avg[3] = <<3, 2>>
    /\ Len(zwanzig_factor_avg_simulations) = 1
    /\ zwanzig_factor_avg_simulations[1][3] = <<1, 1>>

\* ------------------------------------- claims: recording loop, fleeting walk
\* C28 as stated: in the MD recording loop every written index lies in
\* [0, total_frames), no index is written twice, and at the end of the run
\* every row of the trajectory has been written.
C28_EveryRowWrittenOnce ==
    /\ md_pc # "index_error"
    /\ \A n \in 1..Len(rows_written) :
          /\ rows_written[n] >= 0
          /\ rows_written[n] < md_total_frames
          /\ \A m \in 1..Len(rows_written) :
                (rows_written[m] = rows_written[n]) => m = n
    /\ (md_pc = "done") =>
          \A row \in 0..(md_total_frames - 1) : row \in Range(rows_written)

\* the Monte Carlo move of one pass of the outer loop
MonteCarloStep == fleeting_pc = "md" /\ fleeting_pc' = "head"

\* C30 as stated: the Metropolis test compares the energy of the proposed
\* point with the energy of the state initial_x of the Monte Carlo walk, the
\* point the proposal was generated from; initial_x changes only when a
\* proposal is accepted, when it takes the value of the proposal, and acc
\* counts exactly the accepted proposals; initial_x lies
\* on x0 + x1 = 0 in every reachable state, and so does the first point of
\* every fleeting trajectory.
C30_MetropolisTestUsesWalkState ==
    /\ [][MonteCarloStep =>
            /\ e_old' = fleeting_potential_energy(initial_x)
            /\ e_new' = fleeting_potential_energy(proposed_x')
            /\ proposed_x'[1] - initial_x[1] \in Displacements
            /\ acc' \in {acc, acc + 1}
            /\ (initial_x' # initial_x) => acc' = acc + 1
            /\ (acc' = acc + 1) => initial_x' = proposed_x'
            /\ (acc' = acc) => initial_x' = initial_x]_vars
    /\ [][(initial_x' # initial_x \/ acc' # acc) => MonteCarloStep]_vars
    /\ [](initial_x[1] + initial_x[2] = 0)
    /\ []((fleeting_pc = "md") =>
            fleeting_trajectory[0][1] + fleeting_trajectory[0][2] = 0)

====
